---- MODULE Spec2Model ----
(***************************************************************************)
(* QueueMincer: the Queue Manager (src/queue/queue-manager.ts) on top of   *)
(* the four Loader variants (memory, json, csv, googleSheet).              *)
(*                                                                         *)
(* A system is one record `sys`: the configuration, the Queue Manager's    *)
(* fields, the Loader's fields and the backing store (the templates        *)
(* directory or the spreadsheet).  Every operation of the code is an       *)
(* operator from a system to a result [s, ret, err]: the system after the  *)
(* call, the returned value and the error raised ("none" when it returns   *)
(* normally).                                                              *)
(***************************************************************************)
EXTENDS Integers, Sequences, FiniteSets, TLC

VARIABLES sys, twin, last, nops, flight

vars == <<sys, twin, last, nops, flight>>

(***************************************************************************)
(* Bounds                                                                  *)
(***************************************************************************)
\* longest item list (queue, file, sheet) the model lets an operation build
MaxLen == 3
\* number of operations of one run of the paired (cached, pass-through)
\* systems, and number of calls the server accepts in one await-grain run
MaxOps == 3
\* number of tool calls the server may be handling at the same time
MaxFlight == 2

(***************************************************************************)
(* Values.  A JavaScript value is a tagged record; an item (a JSON object) *)
(* is a function from its keys to values.                                  *)
(***************************************************************************)
Nil == [nil |-> TRUE]
NoName == "<null>"

Num(n) == [t |-> "number", n |-> n]
Str(x) == [t |-> "string", x |-> x]
Bool(b) == [t |-> "boolean", b |-> b]
JsNull == [t |-> "null"]
\* a field value that is an array / a nested object (content not modelled)
JsArray == [t |-> "array"]
JsObject == [t |-> "object"]
\* a method value, as every object inherits from Object.prototype
JsFunction == [t |-> "function"]
\* the property names every object answers to without having them as fields
ObjectPrototype == {"toString"}

\* a tagged value, as opposed to an item with its keys
IsPrimitive(x) == "t" \in DOMAIN x

\* JavaScript's typeof
TypeOf(x) ==
  IF IsPrimitive(x)
    THEN (IF x.t \in {"null", "array", "object"} THEN "object" ELSE x.t)
    ELSE "object"

\* the values JavaScript's `||` treats as false
Falsy(x) ==
  \/ x = Nil
  \/ x = JsNull
  \/ x = Num(0)
  \/ x = Str("")
  \/ x = Bool(FALSE)

\* `x || null`
OrNull(x) == IF Falsy(x) THEN Nil ELSE x

\* the order in which the keys of an object are enumerated
FieldOrder == <<"v", "w">>

\* Object.keys(item)
Keys(item) ==
  IF IsPrimitive(item) THEN <<>>
  ELSE SelectSeq(FieldOrder, LAMBDA k : k \in DOMAIN item)

\* the items the callers push and the template files hold
ItemA == [v |-> Num(1)]
ItemB == [v |-> Num(2)]
ItemC == [v |-> Str("1")]
ItemD == [w |-> Num(1)]
ItemE == [v |-> Bool(TRUE)]

PushItems == {ItemA, ItemC, ItemD}

\* the item templates a configuration may declare (Nil: none configured)
TemplateNumber == [v |-> "number"]
TemplateString == [v |-> "string"]
ConfigTemplates == {Nil, TemplateString}

Backends == {"memory", "json", "csv", "googleSheet"}

\* the names of the templates (file stems / sheet titles) in the store
StoreNames == {"t", "u", "nope", "queue", "Sheet1"}
\* the templateIds the callers pass
TemplateIds == {"t", "u", "nope"}

(***************************************************************************)
(* Results of an operation                                                 *)
(***************************************************************************)
R(s, ret, err) == [s |-> s, ret |-> ret, err |-> err]
Ok(s, ret) == R(s, ret, "none")
Fail(s, err) == R(s, Nil, err)

\* the value an awaited call resolved to: the element of a singleton.
\* The({e(x) : x \in {call}}) evaluates the call once and names its result x
The(S) == CHOOSE x \in S : TRUE

\* xs with its first / last element removed
Rest(xs) == SubSeq(xs, 2, Len(xs))
Front(xs) == SubSeq(xs, 1, Len(xs) - 1)

(***************************************************************************)
(* The backing store: name -> content.                                     *)
(*   absent : no such file / sheet                                         *)
(*   json   : the parsed text of a .json file, an array of items or not    *)
(*   rows   : the cell matrix of a .csv file or of a sheet, header first   *)
(***************************************************************************)
Absent == [kind |-> "absent"]
JsonText(isArray, items) == [kind |-> "json", isArray |-> isArray, items |-> items]
CellRows(rows) == [kind |-> "rows", rows |-> rows]

Exists(store, name) == name \in DOMAIN store /\ store[name] # Absent

\* fs.readdir(TEMPLATES_DIR) filtered by extension: the names that exist,
\* in the listing order of the file system
ReadDir(s) == SelectSeq(s.dirOrder, LAMBDA f : Exists(s.store, f))

\* one read access to the backing store by the loader (fs.readdir, fs.access,
\* a file read, spreadsheets.get, spreadsheets.values.get), counted per call
Consult(s) == [s EXCEPT !.reads = @ + 1]

\* a catch block that logs the error and lets the call go on
Swallow(s) == [s EXCEPT !.caught = TRUE]

\* String(n) for the numbers of the model
NumString(n) == ToString(n)
Numbers == 0..2
\* /^-?\d+(\.\d+)?$/.test(cell), over the cells the model produces
IsNumeric(cell) == \E n \in Numbers : NumString(n) = cell
ParseFloat(cell) == CHOOSE n \in Numbers : NumString(n) = cell
\* cell.toLowerCase()
ToLower(cell) ==
  CASE cell = "TRUE" -> "true"
    [] cell = "True" -> "true"
    [] cell = "FALSE" -> "false"
    [] cell = "False" -> "false"
    [] OTHER -> cell

\* the coercion of one cell on read (csv-loader.ts convertTypes and the
\* same code inlined in googlesheet-loader.ts loadSheet)
CoerceCell(cell) ==
  IF IsNumeric(cell) THEN Num(ParseFloat(cell))
  ELSE IF ToLower(cell) = "true" THEN Bool(TRUE)
  ELSE IF ToLower(cell) = "false" THEN Bool(FALSE)
  ELSE Str(cell)

\* csv-parser: one object per data row, keyed by the header row, every
\* value the cell's text
ParseRow(headers, row) ==
  [k \in {headers[i] : i \in 1..Len(headers)} |->
     LET i == CHOOSE j \in 1..Len(headers) : headers[j] = k
     IN  IF i <= Len(row) THEN row[i] ELSE ""]

convertTypes(row) == [k \in DOMAIN row |-> CoerceCell(row[k])]

\* item[header]: the value, or undefined (Nil) when the key is missing
Prop(item, key) ==
  IF ~IsPrimitive(item) /\ key \in DOMAIN item THEN item[key] ELSE Nil

\* csv-stringify's default cast of one value to a cell
CsvCell(v) ==
  CASE v = Nil -> ""
    [] v = JsNull -> ""
    [] v.t = "number" -> NumString(v.n)
    [] v.t = "string" -> v.x
    [] v.t = "boolean" -> (IF v.b THEN "1" ELSE "")
    [] v.t = "array" -> "[]"
    [] OTHER -> "{}"

\* googlesheet-loader.ts writeSheet's conversion of one value to a cell
SheetCell(v) ==
  CASE v = Nil -> ""
    [] v = JsNull -> ""
    [] v.t = "number" -> NumString(v.n)
    [] v.t = "string" -> v.x
    [] v.t = "boolean" -> (IF v.b THEN "true" ELSE "false")
    [] v.t = "array" -> "[]"
    [] OTHER -> "{}"

\* one row of values per item, columns by the first item's keys
RowsOf(data) ==
  LET headers == Keys(data[1])
  IN  [i \in 1..Len(data) |->
         [j \in 1..Len(headers) |-> Prop(data[i], headers[j])]]

\* the header row followed by the rows as csv-stringify writes them
CsvRows(data) ==
  <<Keys(data[1])>> \o
  [i \in 1..Len(data) |->
     [j \in 1..Len(Keys(data[1])) |-> CsvCell(RowsOf(data)[i][j])]]

\* the header row followed by the rows as writeSheet converts them
SheetRows(data) ==
  <<Keys(data[1])>> \o
  [i \in 1..Len(data) |->
     [j \in 1..Len(Keys(data[1])) |-> SheetCell(RowsOf(data)[i][j])]]

(***************************************************************************)
(* File access of the JSON loader                                          *)
(***************************************************************************)
\* json-loader.ts loadJsonFile: [ok, items]
loadJsonFile(s, filename) ==
  LET c == IF filename \in DOMAIN s.store /\ ~s.readFails THEN s.store[filename]
           ELSE Absent
  IN  IF c.kind = "json" /\ c.isArray
        THEN [ok |-> TRUE, items |-> c.items]
        ELSE [ok |-> FALSE, items |-> <<>>]

\* json-loader.ts saveJsonFile: the store after the write
saveJsonFile(s, filename, data) ==
  [s EXCEPT !.store[filename] = JsonText(TRUE, data)]

(***************************************************************************)
(* File access of the CSV loader                                           *)
(***************************************************************************)
\* csv-loader.ts loadCsvFile: [ok, items]
loadCsvFile(s, filename) ==
  LET c == IF filename \in DOMAIN s.store /\ ~s.readFails THEN s.store[filename]
           ELSE Absent
  IN  IF c.kind = "rows"
        THEN [ok |-> TRUE,
              items |-> IF c.rows = <<>> THEN <<>>
                        ELSE [i \in 1..(Len(c.rows) - 1) |->
                                convertTypes(ParseRow(c.rows[1], c.rows[i + 1]))]]
        ELSE [ok |-> FALSE, items |-> <<>>]

\* csv-loader.ts saveCsvFile
saveCsvFile(s, filename, data) ==
  IF Len(data) = 0
    THEN [s EXCEPT !.store[filename] = CellRows(<<>>)]
    ELSE [s EXCEPT !.store[filename] = CellRows(CsvRows(data))]

(***************************************************************************)
(* Sheet access of the spreadsheet loader                                  *)
(***************************************************************************)
\* googlesheet-loader.ts loadSheet: [ok, items]
loadSheet(s, sheetName) ==
  LET c == IF sheetName \in DOMAIN s.store /\ ~s.readFails THEN s.store[sheetName]
           ELSE Absent
  IN  IF c.kind = "rows"
        THEN [ok |-> TRUE,
              items |-> IF c.rows = <<>> THEN <<>>
                        ELSE LET headers == c.rows[1]
                             IN [i \in 1..(Len(c.rows) - 1) |->
                                  [k \in {headers[j] : j \in 1..Len(headers)} |->
                                     LET j == CHOOSE n \in 1..Len(headers) : headers[n] = k
                                         row == c.rows[i + 1]
                                     IN  IF j <= Len(row) THEN CoerceCell(row[j])
                                         ELSE JsNull]]]
        ELSE [ok |-> FALSE, items |-> <<>>]

\* googlesheet-loader.ts createSheet
createSheet(s, sheetName) ==
  [s EXCEPT !.store[sheetName] = CellRows(<<>>),
            !.loader.availableSheets =
               IF \E i \in 1..Len(@) : @[i] = sheetName THEN @
               ELSE Append(@, sheetName)]

\* googlesheet-loader.ts writeSheet: clear, then update
writeSheet(s, sheetName, data) ==
  IF Len(data) = 0
    THEN [s EXCEPT !.store[sheetName] = CellRows(<<>>)]
    ELSE [s EXCEPT !.store[sheetName] = CellRows(SheetRows(data))]

\* inferSchema of the three file/sheet loaders
inferSchema(item) ==
  IF IsPrimitive(item) THEN <<>>
  ELSE [k \in DOMAIN item |-> TypeOf(item[k])]


(***************************************************************************)
(* Memory loader (memory-loader.ts)                                        *)
(***************************************************************************)
Memory_initialize(s) ==
  IF s.loader.initialized THEN Ok(s, Nil)
  ELSE Ok([s EXCEPT !.loader.initialized = TRUE], Nil)

Memory_getItems(s) == Ok(s, s.loader.items)

\* loadTemplate returning the list as it is, without the reset
Memory_loadTemplate_Keeps(s, templateId) == Ok(s, s.loader.items)

\* the templateId is ignored: reset to an empty list and return that list
Memory_loadTemplate(s, templateId) ==
  Ok([s EXCEPT !.loader.items = <<>>], <<>>)

Memory_hasTemplate(s, templateId) == Ok(s, TRUE)

Memory_getItemSchema(s) == OrNull(s.config.itemTemplate)

Memory_saveItems(s, items) == Ok([s EXCEPT !.loader.items = items], Nil)

Memory_addItemFront(s, item) ==
  Ok([s EXCEPT !.loader.items = <<item>> \o @], Nil)

Memory_addItemBack(s, item) ==
  Ok([s EXCEPT !.loader.items = Append(@, item)], Nil)

Memory_removeItemFront(s) ==
  IF Len(s.loader.items) = 0 THEN Ok(s, Nil)
  ELSE Ok([s EXCEPT !.loader.items = Rest(@)], OrNull(Head(s.loader.items)))

Memory_removeItemBack(s) ==
  IF Len(s.loader.items) = 0 THEN Ok(s, Nil)
  ELSE Ok([s EXCEPT !.loader.items = Front(@)],
          OrNull(s.loader.items[Len(s.loader.items)]))

(***************************************************************************)
(* File loaders: json-loader.ts and csv-loader.ts are the same code up to  *)
(* the file format (loadJsonFile/saveJsonFile, loadCsvFile/saveCsvFile)    *)
(***************************************************************************)
LoadFile(s, filename) ==
  IF s.config.loader = "json" THEN loadJsonFile(s, filename)
  ELSE loadCsvFile(s, filename)

SaveFile(s, filename, data) ==
  IF s.config.loader = "json" THEN saveJsonFile(s, filename, data)
  ELSE saveCsvFile(s, filename, data)

File_initialize(s) ==
  IF s.loader.initialized THEN Ok(s, Nil)
  ELSE
    The({ Ok([s2 EXCEPT !.loader.initialized = TRUE], Nil) :
          s2 \in { IF s.config.itemTemplate # Nil
                     THEN [s1 EXCEPT !.loader.itemSchema = s.config.itemTemplate]
                     ELSE s1 :
                   s1 \in { IF Len(ReadDir(s)) = 0 THEN Consult(s)
                            ELSE The({
                              IF ~l.ok
                                \* caught: 'Could not load default template'
                                THEN [Swallow(Consult(Consult(s))) EXCEPT
                                        !.loader.active = ReadDir(s)[1]]
                              ELSE [Consult(Consult(s)) EXCEPT
                                !.loader.active = ReadDir(s)[1],
                                !.loader.itemSchema =
                                   IF Len(l.items) > 0 /\ s.config.itemTemplate = Nil
                                     THEN inferSchema(l.items[1]) ELSE @,
                                !.loader.cachedItems =
                                   IF s.config.inMemory THEN l.items ELSE @] :
                              l \in {LoadFile(s, ReadDir(s)[1])} }) } } })

File_getItems(s) ==
  IF s.config.inMemory THEN Ok(s, s.loader.cachedItems)
  ELSE IF s.loader.active = NoName
    THEN IF Len(ReadDir(s)) > 0
           \* a failed load is caught: 'Failed to load items'
           THEN The({ IF l.ok
                        THEN Ok([Consult(Consult(s)) EXCEPT
                                   !.loader.active = ReadDir(s)[1]], l.items)
                        ELSE Ok([Swallow(Consult(Consult(s))) EXCEPT
                                   !.loader.active = ReadDir(s)[1]], <<>>) :
                      l \in {LoadFile(s, ReadDir(s)[1])} })
           ELSE Ok(Consult(s), <<>>)
    ELSE The({ IF l.ok THEN Ok(Consult(s), l.items)
               ELSE Fail(Consult(s), "loadFailed") :
               l \in {LoadFile(s, s.loader.active)} })

\* loadTemplate keeping the loaded items in cachedItems in either mode
File_loadTemplate_KeepsCopy(s, templateId) ==
  The({ IF ~l.ok
          THEN Fail([Consult(s) EXCEPT !.loader.active = templateId], "loadFailed")
        ELSE Ok([Consult(s) EXCEPT !.loader.active = templateId,
                                   !.loader.cachedItems = l.items],
                l.items) :
        l \in {LoadFile(s, templateId)} })

File_loadTemplate(s, templateId) ==
  The({ IF ~l.ok
          THEN Fail([Consult(s) EXCEPT !.loader.active = templateId], "loadFailed")
        ELSE Ok([Consult(s) EXCEPT !.loader.active = templateId,
                                   !.loader.cachedItems =
                                      IF s.config.inMemory THEN l.items ELSE @],
                l.items) :
        l \in {LoadFile(s, templateId)} })

\* fs.access on the template's file
File_hasTemplate(s, templateId) == Ok(Consult(s), Exists(s.store, templateId))

File_getItemSchema(s) == s.loader.itemSchema

File_saveItems(s, items) ==
  IF s.config.inMemory
    THEN Ok([s EXCEPT !.loader.cachedItems = items], Nil)
    ELSE IF s.loader.active = NoName
      THEN Ok(SaveFile([s EXCEPT !.loader.active = "queue"], "queue", items), Nil)
      ELSE Ok(SaveFile(s, s.loader.active, items), Nil)

File_addItemFront(s, item) ==
  IF s.config.inMemory
    THEN Ok([s EXCEPT !.loader.cachedItems = <<item>> \o @], Nil)
    ELSE The({ IF g.err # "none" THEN Fail(g.s, g.err)
               ELSE File_saveItems(g.s, <<item>> \o g.ret) :
               g \in {File_getItems(s)} })

File_addItemBack(s, item) ==
  IF s.config.inMemory
    THEN Ok([s EXCEPT !.loader.cachedItems = Append(@, item)], Nil)
    ELSE The({ IF g.err # "none" THEN Fail(g.s, g.err)
               ELSE File_saveItems(g.s, Append(g.ret, item)) :
               g \in {File_getItems(s)} })

File_removeItemFront(s) ==
  IF s.config.inMemory
    THEN IF Len(s.loader.cachedItems) = 0 THEN Ok(s, Nil)
         ELSE Ok([s EXCEPT !.loader.cachedItems = Rest(@)],
                 OrNull(Head(s.loader.cachedItems)))
    ELSE The({ IF g.err # "none" THEN Fail(g.s, g.err)
               ELSE IF Len(g.ret) = 0 THEN Ok(g.s, Nil)
               ELSE The({ R(w.s, Head(g.ret), w.err) :
                          w \in {File_saveItems(g.s, Rest(g.ret))} }) :
               g \in {File_getItems(s)} })

File_removeItemBack(s) ==
  IF s.config.inMemory
    THEN IF Len(s.loader.cachedItems) = 0 THEN Ok(s, Nil)
         ELSE Ok([s EXCEPT !.loader.cachedItems = Front(@)],
                 OrNull(s.loader.cachedItems[Len(s.loader.cachedItems)]))
    ELSE The({ IF g.err # "none" THEN Fail(g.s, g.err)
               ELSE IF Len(g.ret) = 0 THEN Ok(g.s, Nil)
               ELSE The({ R(w.s, g.ret[Len(g.ret)], w.err) :
                          w \in {File_saveItems(g.s, Front(g.ret))} }) :
               g \in {File_getItems(s)} })

(***************************************************************************)
(* Spreadsheet loader (googlesheet-loader.ts)                              *)
(***************************************************************************)
InSheets(s, name) ==
  \E i \in 1..Len(s.loader.availableSheets) : s.loader.availableSheets[i] = name

Sheet_initialize(s) ==
  IF s.loader.initialized THEN Ok(s, Nil)
  ELSE IF ~s.credentials THEN Fail(s, "initFailed")
  ELSE IF Len(ReadDir(s)) = 0
    THEN Ok([Consult(s) EXCEPT !.loader.availableSheets = ReadDir(s),
                               !.loader.itemSchema = s.config.itemTemplate,
                               !.loader.initialized = TRUE], Nil)
  ELSE
    The({ IF ~l.ok
            THEN Fail([Consult(Consult(s)) EXCEPT
                         !.loader.availableSheets = ReadDir(s),
                         !.loader.active = ReadDir(s)[1]], "initFailed")
          ELSE Ok([Consult(Consult(s)) EXCEPT
                     !.loader.availableSheets = ReadDir(s),
                     !.loader.active = ReadDir(s)[1],
                     !.loader.itemSchema =
                        IF s.config.itemTemplate # Nil THEN s.config.itemTemplate
                        ELSE IF Len(l.items) > 0 THEN inferSchema(l.items[1])
                        ELSE @,
                     !.loader.cachedItems =
                        IF s.config.inMemory THEN l.items ELSE @,
                     !.loader.initialized = TRUE], Nil) :
          l \in {loadSheet(s, ReadDir(s)[1])} })

Sheet_getItems(s) ==
  IF s.config.inMemory THEN Ok(s, s.loader.cachedItems)
  ELSE IF s.loader.active = NoName /\ Len(s.loader.availableSheets) = 0
    THEN Ok(s, <<>>)
  ELSE
    \* a failed load is caught: 'Failed to load items from Google Sheet'
    The({ The({ IF l.ok THEN Ok(Consult(a), l.items)
                ELSE Ok(Swallow(Consult(a)), <<>>) :
                l \in {loadSheet(a, a.loader.active)} }) :
          a \in { IF s.loader.active = NoName
                    THEN [s EXCEPT !.loader.active = s.loader.availableSheets[1]]
                    ELSE s } })

Sheet_loadTemplate(s, templateId) ==
  IF ~InSheets(s, templateId) THEN Fail(s, "notFound")
  ELSE
    The({ IF ~l.ok
            THEN Fail([Consult(s) EXCEPT !.loader.active = templateId], "loadFailed")
          ELSE Ok([Consult(s) EXCEPT !.loader.active = templateId,
                                     !.loader.cachedItems =
                                        IF s.config.inMemory THEN l.items ELSE @],
                  l.items) :
          l \in {loadSheet(s, templateId)} })

\* answered from the listing taken at initialization
Sheet_hasTemplate(s, templateId) == Ok(s, InSheets(s, templateId))

Sheet_getItemSchema(s) == s.loader.itemSchema

Sheet_saveItems(s, items) ==
  IF s.config.inMemory
    THEN Ok([s EXCEPT !.loader.cachedItems = items], Nil)
    ELSE
      The({ Ok(writeSheet(a, a.loader.active, items), Nil) :
            a \in { IF s.loader.active # NoName THEN s
                    ELSE IF Len(s.loader.availableSheets) > 0
                      THEN [s EXCEPT !.loader.active = s.loader.availableSheets[1]]
                      ELSE createSheet([s EXCEPT !.loader.active = "Sheet1"],
                                       "Sheet1") } })

Sheet_addItemFront(s, item) ==
  IF s.config.inMemory
    THEN Ok([s EXCEPT !.loader.cachedItems = <<item>> \o @], Nil)
    ELSE The({ Sheet_saveItems(g.s, <<item>> \o g.ret) :
               g \in {Sheet_getItems(s)} })

Sheet_addItemBack(s, item) ==
  IF s.config.inMemory
    THEN Ok([s EXCEPT !.loader.cachedItems = Append(@, item)], Nil)
    ELSE The({ Sheet_saveItems(g.s, Append(g.ret, item)) :
               g \in {Sheet_getItems(s)} })

Sheet_removeItemFront(s) ==
  IF s.config.inMemory
    THEN IF Len(s.loader.cachedItems) = 0 THEN Ok(s, Nil)
         ELSE Ok([s EXCEPT !.loader.cachedItems = Rest(@)],
                 OrNull(Head(s.loader.cachedItems)))
    ELSE The({ IF Len(g.ret) = 0 THEN Ok(g.s, Nil)
               ELSE The({ R(w.s, Head(g.ret), w.err) :
                          w \in {Sheet_saveItems(g.s, Rest(g.ret))} }) :
               g \in {Sheet_getItems(s)} })

Sheet_removeItemBack(s) ==
  IF s.config.inMemory
    THEN IF Len(s.loader.cachedItems) = 0 THEN Ok(s, Nil)
         ELSE Ok([s EXCEPT !.loader.cachedItems = Front(@)],
                 OrNull(s.loader.cachedItems[Len(s.loader.cachedItems)]))
    ELSE The({ IF Len(g.ret) = 0 THEN Ok(g.s, Nil)
               ELSE The({ R(w.s, g.ret[Len(g.ret)], w.err) :
                          w \in {Sheet_saveItems(g.s, Front(g.ret))} }) :
               g \in {Sheet_getItems(s)} })

(***************************************************************************)
(* The QueueLoader interface (loaders/index.ts): dispatch on the backend   *)
(* createLoader selected                                                   *)
(***************************************************************************)
IsFile(s) == s.config.loader \in {"json", "csv"}

\* the loaders refusing to initialize on a store that holds nothing
Loader_initialize_NeedsContent(s) ==
  IF ~s.loader.initialized /\ Len(ReadDir(s)) = 0 THEN Fail(s, "initFailed")
  ELSE CASE s.config.loader = "memory" -> Memory_initialize(s)
         [] IsFile(s) -> File_initialize(s)
         [] OTHER -> Sheet_initialize(s)

Loader_initialize(s) ==
  CASE s.config.loader = "memory" -> Memory_initialize(s)
    [] IsFile(s) -> File_initialize(s)
    [] OTHER -> Sheet_initialize(s)

Loader_getItems(s) ==
  CASE s.config.loader = "memory" -> Memory_getItems(s)
    [] IsFile(s) -> File_getItems(s)
    [] OTHER -> Sheet_getItems(s)

Loader_loadTemplate(s, templateId) ==
  CASE s.config.loader = "memory" -> Memory_loadTemplate(s, templateId)
    [] IsFile(s) -> File_loadTemplate(s, templateId)
    [] OTHER -> Sheet_loadTemplate(s, templateId)

Loader_hasTemplate(s, templateId) ==
  CASE s.config.loader = "memory" -> Memory_hasTemplate(s, templateId)
    [] IsFile(s) -> File_hasTemplate(s, templateId)
    [] OTHER -> Sheet_hasTemplate(s, templateId)

Loader_getItemSchema(s) ==
  CASE s.config.loader = "memory" -> Memory_getItemSchema(s)
    [] IsFile(s) -> File_getItemSchema(s)
    [] OTHER -> Sheet_getItemSchema(s)

Loader_saveItems(s, items) ==
  CASE s.config.loader = "memory" -> Memory_saveItems(s, items)
    [] IsFile(s) -> File_saveItems(s, items)
    [] OTHER -> Sheet_saveItems(s, items)

Loader_addItemFront(s, item) ==
  CASE s.config.loader = "memory" -> Memory_addItemFront(s, item)
    [] IsFile(s) -> File_addItemFront(s, item)
    [] OTHER -> Sheet_addItemFront(s, item)

Loader_addItemBack(s, item) ==
  CASE s.config.loader = "memory" -> Memory_addItemBack(s, item)
    [] IsFile(s) -> File_addItemBack(s, item)
    [] OTHER -> Sheet_addItemBack(s, item)

Loader_removeItemFront(s) ==
  CASE s.config.loader = "memory" -> Memory_removeItemFront(s)
    [] IsFile(s) -> File_removeItemFront(s)
    [] OTHER -> Sheet_removeItemFront(s)

Loader_removeItemBack(s) ==
  CASE s.config.loader = "memory" -> Memory_removeItemBack(s)
    [] IsFile(s) -> File_removeItemBack(s)
    [] OTHER -> Sheet_removeItemBack(s)


(***************************************************************************)
(* Queue Manager (queue-manager.ts, DefaultQueueManager)                   *)
(***************************************************************************)
\* `this.items = xs` / an in-place mutation of this.items.  After a cached
\* replaceFromTemplate this.items IS the array the loader keeps
\* (loadTemplate returns its own array), so in-place mutations show in both.
SetItems(s, xs) ==
  IF ~s.shared THEN [s EXCEPT !.items = xs]
  ELSE IF s.config.loader = "memory"
    THEN [s EXCEPT !.items = xs, !.loader.items = xs]
    ELSE [s EXCEPT !.items = xs, !.loader.cachedItems = xs]

\* validateItem checking that the declared fields are present, not their kinds
validateItem_PresenceOnly(s, item) ==
  IF s.itemTemplate = Nil THEN TRUE
  ELSE IF IsPrimitive(item) THEN FALSE
  ELSE \A key \in DOMAIN s.itemTemplate : key \in DOMAIN item

\* validateItem refusing an item that carries a field the template does not
\* declare
validateItem_DeclaredOnly(s, item) ==
  IF s.itemTemplate = Nil THEN TRUE
  ELSE IF IsPrimitive(item) THEN FALSE
  ELSE /\ DOMAIN item \subseteq DOMAIN s.itemTemplate
       /\ \A key \in DOMAIN s.itemTemplate :
            key \in DOMAIN item /\ TypeOf(item[key]) = s.itemTemplate[key]

validateItem(s, item) ==
  IF s.itemTemplate = Nil THEN TRUE
  ELSE IF IsPrimitive(item) THEN FALSE
  ELSE \A key \in DOMAIN s.itemTemplate :
         /\ key \in DOMAIN item \cup ObjectPrototype
         /\ LET value == IF key \in DOMAIN item THEN item[key] ELSE JsFunction
                type == s.itemTemplate[key]
            IN  CASE type = "string" -> TypeOf(value) = "string"
                  [] type = "number" -> TypeOf(value) = "number"
                  [] type = "boolean" -> TypeOf(value) = "boolean"
                  [] type = "object" -> TypeOf(value) = "object" /\ value # JsNull
                  [] type = "array" -> value = JsArray
                  [] OTHER -> TRUE

\* initialize running again on an initialized manager: it asks the loader
\* again for the schema and for the items
initialize_Reloads(s) ==
  The({ IF l.err # "none" THEN Fail(l.s, l.err)
        ELSE IF s.config.inMemory
          THEN The({ IF g.err # "none" THEN Fail(g.s, g.err)
                     ELSE Ok([g.s EXCEPT !.items = g.ret, !.initialized = TRUE],
                             Nil) :
                     g \in {Loader_getItems(l.s)} })
          ELSE Ok([l.s EXCEPT !.initialized = TRUE], Nil) :
        l \in {Loader_initialize(s)} })

initialize(s) ==
  IF s.initialized THEN Ok(s, Nil)
  ELSE
    The({ IF l.err # "none" THEN Fail(l.s, l.err)
          ELSE
            The({ IF s.config.inMemory
                    THEN The({ IF g.err # "none" THEN Fail(g.s, g.err)
                               ELSE Ok([g.s EXCEPT !.items = g.ret,
                                                   !.initialized = TRUE], Nil) :
                               g \in {Loader_getItems(a)} })
                    ELSE Ok([a EXCEPT !.initialized = TRUE], Nil) :
                  a \in { [l.s EXCEPT !.itemTemplate =
                             IF ~Falsy(Loader_getItemSchema(l.s))
                               THEN Loader_getItemSchema(l.s)
                               ELSE OrNull(s.config.itemTemplate)] } }) :
          l \in {Loader_initialize(s)} })

\* getFront raising on an empty cached array instead of returning null
getFront_RaisesOnEmpty(s) ==
  IF s.config.inMemory
    THEN IF Len(s.items) = 0 THEN Fail(s, "empty")
         ELSE Ok(SetItems(s, Rest(s.items)), OrNull(Head(s.items)))
    ELSE Loader_removeItemFront(s)

getFront(s) ==
  IF s.config.inMemory
    THEN IF Len(s.items) = 0 THEN Ok(s, Nil)
         ELSE Ok(SetItems(s, Rest(s.items)), OrNull(Head(s.items)))
    ELSE Loader_removeItemFront(s)

\* getBack checking the store's listing before it serves the cached array
getBack_ConsultsStore(s) ==
  IF s.config.inMemory
    THEN IF Len(s.items) = 0 THEN Ok(Consult(s), Nil)
         ELSE Ok(SetItems(Consult(s), Front(s.items)), OrNull(s.items[Len(s.items)]))
    ELSE Loader_removeItemBack(s)

getBack(s) ==
  IF s.config.inMemory
    THEN IF Len(s.items) = 0 THEN Ok(s, Nil)
         ELSE Ok(SetItems(s, Front(s.items)), OrNull(s.items[Len(s.items)]))
    ELSE Loader_removeItemBack(s)

\* pushFront inserting before it validates
pushFront_InsertsFirst(s, item) ==
  The({ IF ~validateItem(s, item) THEN Fail(a.s, "schemaMismatch") ELSE a :
        a \in { IF s.config.inMemory
                  THEN Ok(SetItems(s, <<item>> \o s.items), Nil)
                  ELSE Loader_addItemFront(s, item) } })

pushFront(s, item) ==
  IF ~validateItem(s, item) THEN Fail(s, "schemaMismatch")
  ELSE IF s.config.inMemory THEN Ok(SetItems(s, <<item>> \o s.items), Nil)
  ELSE Loader_addItemFront(s, item)

\* pushBack persisting the cached array through the loader's direct path
pushBack_WritesThrough(s, item) ==
  IF ~validateItem(s, item) THEN Fail(s, "schemaMismatch")
  ELSE IF s.config.inMemory
    THEN The({ Ok([w.s EXCEPT !.config.inMemory = TRUE], Nil) :
               w \in { Loader_saveItems(
                         [SetItems(s, Append(s.items, item))
                            EXCEPT !.config.inMemory = FALSE],
                         Append(s.items, item)) } })
  ELSE Loader_addItemBack(s, item)

pushBack(s, item) ==
  IF ~validateItem(s, item) THEN Fail(s, "schemaMismatch")
  ELSE IF s.config.inMemory THEN Ok(SetItems(s, Append(s.items, item)), Nil)
  ELSE Loader_addItemBack(s, item)

\* replaceFromTemplate loading the template before it checks that it exists
replaceFromTemplate_LoadsFirst(s, templateId) ==
  The({ IF ~Loader_hasTemplate(l.s, templateId).ret THEN Fail(l.s, "notFound")
        ELSE IF l.err # "none" THEN Fail(l.s, l.err)
        ELSE IF s.config.inMemory
          THEN Ok([l.s EXCEPT !.items = l.ret, !.shared = TRUE], Nil)
          ELSE Loader_saveItems(l.s, l.ret) :
        l \in {Loader_loadTemplate(s, templateId)} })

replaceFromTemplate(s, templateId) ==
  The({ IF ~h.ret THEN Fail(h.s, "notFound")
        ELSE The({ IF l.err # "none" THEN Fail(l.s, l.err)
                    ELSE IF s.config.inMemory
                      THEN Ok([l.s EXCEPT !.items = l.ret, !.shared = TRUE], Nil)
                      ELSE Loader_saveItems(l.s, l.ret) :
                    l \in {Loader_loadTemplate(h.s, templateId)} }) :
        h \in {Loader_hasTemplate(s, templateId)} })

\* addFrontFromTemplate re-inferring the item template from the items it loaded
addFrontFromTemplate_Reinfers(s, templateId) ==
  The({ IF ~h.ret THEN Fail(h.s, "notFound")
        ELSE The({ IF l.err # "none" THEN Fail(l.s, l.err)
                    ELSE IF s.config.inMemory
                      THEN Ok([l.s EXCEPT !.items = l.ret \o s.items, !.shared = FALSE,
                                          !.itemTemplate = IF l.ret = <<>> THEN @
                                                           ELSE inferSchema(l.ret[1])],
                              Nil)
                      ELSE The({ IF g.err # "none" THEN Fail(g.s, g.err)
                                 ELSE Loader_saveItems(g.s, l.ret \o g.ret) :
                                 g \in {Loader_getItems(l.s)} }) :
                    l \in {Loader_loadTemplate(h.s, templateId)} }) :
        h \in {Loader_hasTemplate(s, templateId)} })

addFrontFromTemplate(s, templateId) ==
  The({ IF ~h.ret THEN Fail(h.s, "notFound")
        ELSE The({ IF l.err # "none" THEN Fail(l.s, l.err)
                    ELSE IF s.config.inMemory
                      \* the loader now keeps a fresh array; this.items stays the old one
                      THEN Ok([l.s EXCEPT !.items = l.ret \o s.items, !.shared = FALSE], Nil)
                      ELSE The({ IF g.err # "none" THEN Fail(g.s, g.err)
                                 ELSE Loader_saveItems(g.s, l.ret \o g.ret) :
                                 g \in {Loader_getItems(l.s)} }) :
                    l \in {Loader_loadTemplate(h.s, templateId)} }) :
        h \in {Loader_hasTemplate(s, templateId)} })

\* addBackFromTemplate with the cached branch copied from addFrontFromTemplate
addBackFromTemplate_Prepends(s, templateId) ==
  The({ IF ~h.ret THEN Fail(h.s, "notFound")
        ELSE The({ IF l.err # "none" THEN Fail(l.s, l.err)
                    ELSE IF s.config.inMemory
                      THEN Ok([l.s EXCEPT !.items = l.ret \o s.items, !.shared = FALSE], Nil)
                      ELSE The({ IF g.err # "none" THEN Fail(g.s, g.err)
                                 ELSE Loader_saveItems(g.s, g.ret \o l.ret) :
                                 g \in {Loader_getItems(l.s)} }) :
                    l \in {Loader_loadTemplate(h.s, templateId)} }) :
        h \in {Loader_hasTemplate(s, templateId)} })

addBackFromTemplate(s, templateId) ==
  The({ IF ~h.ret THEN Fail(h.s, "notFound")
        ELSE The({ IF l.err # "none" THEN Fail(l.s, l.err)
                    ELSE IF s.config.inMemory
                      THEN Ok([l.s EXCEPT !.items = s.items \o l.ret, !.shared = FALSE], Nil)
                      ELSE The({ IF g.err # "none" THEN Fail(g.s, g.err)
                                 ELSE Loader_saveItems(g.s, g.ret \o l.ret) :
                                 g \in {Loader_getItems(l.s)} }) :
                    l \in {Loader_loadTemplate(h.s, templateId)} }) :
        h \in {Loader_hasTemplate(s, templateId)} })

(***************************************************************************)
(* What the callers and the store's observers see                          *)
(***************************************************************************)
Unreadable == <<[unreadable |-> TRUE]>>

\* the queue: the cached array, or the active content of the backing store
QueueOf(s) ==
  IF s.config.inMemory THEN s.items
  ELSE The({ IF g.err = "none" THEN g.ret ELSE Unreadable :
             g \in {Loader_getItems(s)} })

\* the content of the named template, as loadTemplate would return it now
TemplateOf(s, templateId) ==
  IF ~Loader_hasTemplate(s, templateId).ret THEN Unreadable
  ELSE The({ IF l.err = "none" THEN l.ret ELSE Unreadable :
             l \in {Loader_loadTemplate(s, templateId)} })

\* the queue state is the same in a and b: the Queue Manager's array, the
\* loader's lists, the content of the store and which content is active
SameQueueState(a, b) ==
  /\ a.items = b.items
  /\ a.loader.items = b.loader.items
  /\ a.loader.cachedItems = b.loader.cachedItems
  /\ a.loader.active = b.loader.active
  /\ a.store = b.store

\* number of items a file or sheet holds
ContentLen(c) ==
  CASE c.kind = "json" -> Len(c.items)
    [] c.kind = "rows" -> IF c.rows = <<>> THEN 0 ELSE Len(c.rows) - 1
    [] OTHER -> 0

\* every list of the system is within the model's bound
Bounded(s) ==
  /\ Len(s.items) <= MaxLen
  /\ Len(s.loader.items) <= MaxLen
  /\ Len(s.loader.cachedItems) <= MaxLen
  /\ \A name \in DOMAIN s.store : ContentLen(s.store[name]) <= MaxLen


(***************************************************************************)
(* The state machine.  sys is the running program; last records the most   *)
(* recent call: its name, arguments, result, the queue and the named       *)
(* template as they were just before it, and the call before it.           *)
(***************************************************************************)
NoCall == [op |-> "none", item |-> Nil, id |-> ""]

Call(s, op, item, id) ==
  CASE op = "initialize" -> initialize(s)
    [] op = "getFront" -> getFront(s)
    [] op = "getBack" -> getBack(s)
    [] op = "pushFront" -> pushFront(s, item)
    [] op = "pushBack" -> pushBack(s, item)
    [] op = "replaceFromTemplate" -> replaceFromTemplate(s, id)
    [] op = "addFrontFromTemplate" -> addFrontFromTemplate(s, id)
    [] op = "addBackFromTemplate" -> addBackFromTemplate(s, id)

TemplateOps == {"replaceFromTemplate", "addFrontFromTemplate", "addBackFromTemplate"}

\* the array operation each queue operation stands for (spec I2)
FoldStep(xs, op, item, tmpl) ==
  CASE op = "getFront" -> IF xs = <<>> THEN xs ELSE Rest(xs)
    [] op = "getBack" -> IF xs = <<>> THEN xs ELSE Front(xs)
    [] op = "pushFront" -> <<item>> \o xs
    [] op = "pushBack" -> xs \o <<item>>
    [] op = "replaceFromTemplate" -> tmpl
    [] op = "addFrontFromTemplate" -> tmpl \o xs
    [] op = "addBackFromTemplate" -> xs \o tmpl
    [] OTHER -> xs

\* the systems a configuration and an initial store give: the state right
\* after `new DefaultQueueManager(config.queue, createLoader(config.queue))`
NewSystem(config, store, dirOrder, credentials) ==
  [config |-> config,
   items |-> <<>>, initialized |-> FALSE, itemTemplate |-> Nil,
   shared |-> FALSE,
   loader |-> [initialized |-> FALSE, itemSchema |-> Nil, cachedItems |-> <<>>,
               active |-> NoName, availableSheets |-> <<>>, items |-> <<>>],
   store |-> store, dirOrder |-> dirOrder, credentials |-> credentials,
   store0 |-> store, ref |-> <<>>, reads |-> 0, caught |-> FALSE,
   readFails |-> FALSE]

\* the lists of items the templates hold initially
InitialContents ==
  { [t |-> <<ItemA, ItemB>>, u |-> <<ItemE>>] }

\* the text of a value as it is typed into a .csv file or a sheet
CellText(v) ==
  CASE v.t = "number" -> NumString(v.n)
    [] v.t = "string" -> v.x
    [] v.t = "boolean" -> (IF v.b THEN "true" ELSE "false")
    [] OTHER -> ""

\* a template holding the given items, in the backend's format
Encode(backend, items) ==
  IF backend = "json" THEN JsonText(TRUE, items)
  ELSE IF Len(items) = 0 THEN CellRows(<<>>)
  ELSE CellRows(<<Keys(items[1])>> \o
         [i \in 1..Len(items) |->
            [j \in 1..Len(Keys(items[1])) |-> CellText(RowsOf(items)[i][j])]])

EmptyStore == [name \in StoreNames |-> Absent]

\* a .json file whose text parses to something that is not an array
Malformed == JsonText(FALSE, <<>>)

\* the stores a deployment can start from: nothing there, the templates
\* there, and for JSON the first template malformed
InitialStores(backend) ==
  IF backend = "memory" THEN {EmptyStore}
  ELSE {EmptyStore} \cup
       { [name \in StoreNames |->
            IF name \in DOMAIN c THEN Encode(backend, c[name]) ELSE Absent]
         : c \in InitialContents } \cup
       (IF backend # "json" THEN {}
        ELSE { [name \in StoreNames |->
                  IF name = "t" THEN Malformed
                  ELSE IF name \in DOMAIN c THEN Encode(backend, c[name])
                  ELSE Absent]
               : c \in InitialContents })

\* the order in which the directory / the spreadsheet lists its entries
DirOrders(store) == { <<"t", "u", "queue", "Sheet1">> }

Configs ==
  [loader : Backends, inMemory : BOOLEAN, itemTemplate : ConfigTemplates]

InitialSystems ==
  UNION { UNION { UNION { { NewSystem(config, store, dirOrder, credentials) :
                              credentials \in IF config.loader = "googleSheet"
                                                THEN BOOLEAN ELSE {TRUE} } :
                          dirOrder \in DirOrders(store) } :
                  store \in InitialStores(config.loader) } :
          config \in Configs }

NoLast ==
  [call |-> NoCall, ret |-> Nil, err |-> "none", queue |-> <<>>, tmpl |-> <<>>,
   has |-> FALSE, same |-> TRUE]

Init ==
  /\ sys \in InitialSystems
  /\ twin = Nil
  /\ nops = 0
  /\ last = NoLast
  /\ flight = <<>>

\* the same deployment run twice from the same store: sys in cached mode,
\* twin.s in pass-through mode, both receiving the same calls
InitPair ==
  /\ sys \in {s \in InitialSystems : s.config.inMemory}
  /\ twin = Ok([sys EXCEPT !.config.inMemory = FALSE], Nil)
  /\ nops = 0
  /\ last = NoLast
  /\ flight = <<>>

\* one call of a Queue Manager operation by the tool layer
Do(op, item, id) ==
  \E r \in {Call([sys EXCEPT !.reads = 0, !.caught = FALSE], op, item, id)},
     tmpl \in {IF op \in TemplateOps THEN TemplateOf(sys, id) ELSE <<>>} :
      /\ Bounded(r.s)
      /\ sys' = [r.s EXCEPT
                   !.ref = IF op = "initialize"
                             THEN (IF r.err = "none" THEN r.s.items ELSE @)
                           ELSE IF r.err = "none" /\ sys.config.inMemory
                             THEN FoldStep(@, op, item, tmpl)
                           ELSE @]
      /\ last' = [call |-> [op |-> op, item |-> item, id |-> id],
                  ret |-> r.ret, err |-> r.err,
                  queue |-> QueueOf(sys), tmpl |-> tmpl,
                  has |-> op \in TemplateOps /\ Loader_hasTemplate(sys, id).ret,
                  same |-> SameQueueState(sys, r.s)]
      /\ UNCHANGED flight
      /\ IF twin = Nil
           THEN UNCHANGED <<twin, nops>>
           ELSE \E r2 \in {Call([twin.s EXCEPT !.reads = 0, !.caught = FALSE],
                                    op, item, id)} :
                    /\ nops < MaxOps
                    /\ Bounded(r2.s)
                    /\ twin' = r2
                    /\ nops' = IF sys.initialized THEN nops + 1 ELSE nops

\* main() awaits queueManager.initialize() before it creates the tools; a
\* failure exits the process
Initialize ==
  /\ ~(last.call.op = "initialize" /\ last.err # "none")
  /\ Do("initialize", Nil, "")

Serving == sys.initialized

GetFront == Serving /\ Do("getFront", Nil, "")

GetBack == Serving /\ Do("getBack", Nil, "")

PushFront == Serving /\ \E item \in PushItems : Do("pushFront", item, "")

PushBack == Serving /\ \E item \in PushItems : Do("pushBack", item, "")

ReplaceFromTemplate ==
  Serving /\ \E id \in TemplateIds : Do("replaceFromTemplate", Nil, id)

AddFrontFromTemplate ==
  Serving /\ \E id \in TemplateIds : Do("addFrontFromTemplate", Nil, id)

AddBackFromTemplate ==
  Serving /\ \E id \in TemplateIds : Do("addBackFromTemplate", Nil, id)

Next ==
  \/ Initialize
  \/ GetFront
  \/ GetBack
  \/ PushFront
  \/ PushBack
  \/ ReplaceFromTemplate
  \/ AddFrontFromTemplate
  \/ AddBackFromTemplate

Spec == Init /\ [][Next]_vars

SpecPair == InitPair /\ [][Next]_vars

\* the reads of the backing store (fs.readFile, spreadsheets.values.get)
\* start or stop failing; the writes go on working
Outage ==
  /\ Serving
  /\ sys' = [sys EXCEPT !.readFails = ~@]
  /\ UNCHANGED <<twin, last, nops, flight>>

\* the pass-through deployments
InitOutage ==
  /\ Init
  /\ ~sys.config.inMemory

NextOutage == Next \/ Outage

SpecOutage == InitOutage /\ [][NextOutage]_vars

\* a caller of the Queue Manager pushing a value that is not an object: with
\* no ItemTemplate validateItem accepts it
PushValue ==
  /\ Serving
  /\ \E op \in {"pushFront", "pushBack"} : Do(op, Num(0), "")

\* the Memory and JSON deployments, which store any JSON value as it is
InitValues ==
  /\ Init
  /\ sys.config.loader \in {"memory", "json"}

NextValues == Next \/ PushValue

SpecValues == InitValues /\ [][NextValues]_vars


(***************************************************************************)
(* Construction on its own: createLoader applied to a queue configuration  *)
(* as the configuration file spells it, before any system exists.          *)
(***************************************************************************)
\* queue configurations as written: any discriminator, put present or not
RawConfigs ==
  [loader : Backends \cup {"redis"}, inMemory : BOOLEAN,
   put : {Nil, Bool(FALSE), Bool(TRUE)}, itemTemplate : ConfigTemplates]

\* createLoader handing the memory case to a constructor without the put test
createLoader_AnyPut(config) ==
  IF config.loader \in Backends THEN "none" ELSE "configError"

\* the error createLoader(config) raises, "none" when it returns a loader:
\* the factory's switch and the constructor it calls
createLoader(config) ==
  CASE config.loader = "memory" ->
         IF Falsy(config.put) THEN "configError" ELSE "none"
    [] config.loader \in {"json", "csv", "googleSheet"} -> "none"
    [] OTHER -> "configError"

InitConstruct ==
  /\ sys \in { [config |-> config] : config \in RawConfigs }
  /\ twin = Nil
  /\ nops = 0
  /\ last = NoLast
  /\ flight = <<>>

\* main: const loader = createLoader(config.queue); on an error the process
\* exits, otherwise the Queue Manager is built around the loader
CreateLoader ==
  /\ last = NoLast
  /\ last' = [call |-> [op |-> "createLoader", item |-> Nil, id |-> ""],
              ret |-> Nil, err |-> createLoader(sys.config),
              queue |-> <<>>, tmpl |-> <<>>, has |-> FALSE, same |-> TRUE]
  /\ IF createLoader(sys.config) # "none" THEN UNCHANGED sys
     ELSE \E store \in InitialStores(sys.config.loader) :
            \E dirOrder \in DirOrders(store) :
              sys' = NewSystem(sys.config, store, dirOrder, TRUE)
  /\ UNCHANGED <<twin, nops, flight>>

SpecConstruct == InitConstruct /\ [][CreateLoader]_vars


(***************************************************************************)
(* The tool layer: the tools main creates from the configuration and the   *)
(* server's two request handlers.  A tool is a record of the fields its    *)
(* constructor sets; names and parameter values are JavaScript strings,    *)
(* Nil where the configuration or the request leaves them out.             *)
(***************************************************************************)
\* the tools section of a validated configuration (defaults filled in)
ToolConfigs ==
  [get : [alias : {Nil, Str("readTodo")}, visible : BOOLEAN,
          directionExposed : BOOLEAN, default : {Str("front"), Str("back")}],
   push : [alias : {Nil, Str("get")}, visible : BOOLEAN,
           directionExposed : BOOLEAN, default : {Str("front"), Str("back")}],
   load : [alias : {Nil}, visible : BOOLEAN, actionExposed : BOOLEAN,
           templateIdExposed : BOOLEAN, default : {Str("replace"), Str("back")}]]

\* the arguments of a CallTool request: none at all, or an object in which
\* each parameter is present or not
Arguments ==
  {Nil} \cup
  [direction : {Nil, Str("front"), Str("back")}, action : {Nil, Str("front")},
   templateId : {Nil, Str("u")}, item : {Nil, ItemA}]

ToolNames == {"get", "push", "load", "readTodo"}

\* new GetTool(config, queueManager)
GetTool(config) ==
  [kind |-> "get",
   name |-> IF Falsy(config.alias) THEN "get" ELSE config.alias.x,
   directionExposed |-> config.directionExposed \/ FALSE,
   default |-> IF Falsy(config.default) THEN Str("front") ELSE config.default]

\* new PushTool(config, queueManager)
PushTool(config) ==
  [kind |-> "push",
   name |-> IF Falsy(config.alias) THEN "push" ELSE config.alias.x,
   directionExposed |-> config.directionExposed \/ TRUE,
   default |-> IF Falsy(config.default) THEN Str("back") ELSE config.default]

\* new LoadTool(config, queueManager)
LoadTool(config) ==
  [kind |-> "load",
   name |-> IF Falsy(config.alias) THEN "load" ELSE config.alias.x,
   actionExposed |-> config.actionExposed \/ FALSE,
   templateIdExposed |-> config.templateIdExposed \/ TRUE,
   default |-> IF Falsy(config.default) THEN Str("replace") ELSE config.default]

\* createTools creating every configured tool, hidden or not
createTools_KeepsHidden(tools) ==
  <<GetTool(tools.get), PushTool(tools.push), LoadTool(tools.load)>>

createTools(tools) ==
  (IF tools.get # Nil /\ tools.get.visible # FALSE
     THEN <<GetTool(tools.get)>> ELSE <<>>) \o
  (IF tools.push # Nil /\ tools.push.visible # FALSE
     THEN <<PushTool(tools.push)>> ELSE <<>>) \o
  (IF tools.load # Nil /\ tools.load.visible # FALSE
     THEN <<LoadTool(tools.load)>> ELSE <<>>)

\* what an execute did: the state it leaves, the Queue Manager operation
\* it called ("none": it answered without calling one) with the templateId
\* it passed, what that operation returned, and the error of its response
\* ("none": a success response)
Did(s, op, id, ret, err) ==
  [s |-> s, op |-> op, id |-> id, ret |-> ret, err |-> err]

\* GetTool.execute(params)
GetTool_execute(tool, s, params) ==
  IF tool.directionExposed /\ params = Nil THEN Did(s, "none", "", Nil, "typeError")
  ELSE LET direction == IF tool.directionExposed
                          THEN (IF Falsy(params.direction) THEN tool.default
                                ELSE params.direction)
                          ELSE tool.default
           op == IF direction = Str("front") THEN "getFront" ELSE "getBack"
       IN  The({ Did(r.s, op, "", r.ret, r.err) : r \in {Call(s, op, Nil, "")} })

\* PushTool.execute(params)
PushTool_execute(tool, s, params) ==
  IF params = Nil THEN Did(s, "none", "", Nil, "typeError")
  ELSE IF Falsy(params.item) \/ TypeOf(params.item) # "object"
    THEN Did(s, "none", "", Nil, "itemRequired")
  ELSE LET direction == IF tool.directionExposed
                          THEN (IF Falsy(params.direction) THEN tool.default
                                ELSE params.direction)
                          ELSE tool.default
           op == IF direction = Str("front") THEN "pushFront" ELSE "pushBack"
       IN  IF ~validateItem(s, params.item)
             THEN Did(s, "none", "", Nil, "invalidItem")
             ELSE The({ Did(r.s, op, "", r.ret, r.err) :
                        r \in {Call(s, op, params.item, "")} })

\* LoadTool.execute(params)
LoadTool_execute(tool, s, params) ==
  IF (tool.actionExposed \/ tool.templateIdExposed) /\ params = Nil
    THEN Did(s, "none", "", Nil, "typeError")
  ELSE IF tool.templateIdExposed /\ Falsy(params.templateId)
    THEN Did(s, "none", "", Nil, "templateIdRequired")
  ELSE LET action == IF tool.actionExposed
                       THEN (IF Falsy(params.action) THEN tool.default
                             ELSE params.action)
                       ELSE tool.default
           templateId == IF tool.templateIdExposed THEN params.templateId.x ELSE ""
           op == CASE action = Str("replace") -> "replaceFromTemplate"
                   [] action = Str("front") -> "addFrontFromTemplate"
                   [] action = Str("back") -> "addBackFromTemplate"
                   [] OTHER -> "none"
       IN  IF op = "none" THEN Did(s, "none", templateId, Nil, "unknownAction")
           ELSE The({ Did(r.s, op, templateId, r.ret, r.err) :
                      r \in {Call(s, op, Nil, templateId)} })

\* an initialized JSON deployment whose templates hold items, with each
\* tools configuration
InitTools ==
  /\ sys \in { [initialize(NewSystem([loader |-> "json", inMemory |-> FALSE,
                                       itemTemplate |-> Nil, tools |-> tools],
                                      store, dirOrder, TRUE)).s
                 EXCEPT !.reads = 0, !.caught = FALSE] :
               tools \in ToolConfigs,
               store \in { x \in InitialStores("json") :
                             x["t"] = Encode("json", <<ItemA, ItemB>>) },
               dirOrder \in DirOrders(EmptyStore) }
  /\ twin = Nil
  /\ nops = 0
  /\ last = NoLast
  /\ flight = <<>>

\* the ListTools handler: the name of each registered tool, and which tool
\* its description and input schema are those of
ListTools ==
  /\ last.call = NoCall
  /\ last' = [NoLast EXCEPT
                !.call = [op |-> "ListTools", item |-> Nil, id |-> ""],
                !.ret = [i \in 1..Len(createTools(sys.config.tools)) |->
                           [name |-> createTools(sys.config.tools)[i].name,
                            kind |-> createTools(sys.config.tools)[i].kind]]]
  /\ UNCHANGED <<sys, twin, nops, flight>>

\* the CallTool handler: find the tool of that name and execute it
CallTool ==
  /\ last.call = NoCall
  /\ \E name \in ToolNames, args \in Arguments :
       \E tools \in {createTools(sys.config.tools)} :
         \E found \in {SelectSeq(tools, LAMBDA tool : tool.name = name)} :
           \E d \in { IF found = <<>> THEN Did(sys, "none", "", Nil, "unknownTool")
                      ELSE CASE found[1].kind = "get" ->
                                  GetTool_execute(found[1], sys, args)
                             [] found[1].kind = "push" ->
                                  PushTool_execute(found[1], sys, args)
                             [] found[1].kind = "load" ->
                                  LoadTool_execute(found[1], sys, args) } :
             /\ sys' = [d.s EXCEPT !.reads = 0, !.caught = FALSE]
             /\ last' = [NoLast EXCEPT
                           !.call = [op |-> "CallTool", item |-> args, id |-> name],
                           !.ret = [tool |-> IF found = <<>> THEN "none"
                                             ELSE found[1].kind,
                                    op |-> d.op, id |-> d.id,
                                    isError |-> d.err # "none",
                                    text |-> IF d.err # "none" THEN d.err
                                             ELSE IF d.op \in {"getFront", "getBack"}
                                                     /\ d.ret = Nil
                                               THEN "Queue is empty"
                                             ELSE "done",
                                    caught |-> d.s.caught],
                           !.err = d.err,
                           !.queue = QueueOf(sys),
                           !.same = SameQueueState(sys, d.s)]
  /\ UNCHANGED <<twin, nops, flight>>

NextTools == ListTools \/ CallTool

SpecTools == InitTools /\ [][NextTools]_vars

\* every deployment after a successful start, serving with all tools
\* visible and all parameters exposed, while the reads of the store work or
\* fail
InitService ==
  /\ sys \in UNION {
       { [r.s EXCEPT !.reads = 0, !.caught = FALSE, !.readFails = readFails] :
         readFails \in BOOLEAN } :
       r \in { i \in { initialize([s0 EXCEPT !.config =
                  [loader |-> s0.config.loader, inMemory |-> s0.config.inMemory,
                   itemTemplate |-> s0.config.itemTemplate,
                   tools |-> [get |-> [alias |-> Nil, visible |-> TRUE,
                                       directionExposed |-> TRUE,
                                       default |-> Str("front")],
                              push |-> [alias |-> Nil, visible |-> TRUE,
                                        directionExposed |-> TRUE,
                                        default |-> Str("back")],
                              load |-> [alias |-> Nil, visible |-> TRUE,
                                        actionExposed |-> TRUE,
                                        templateIdExposed |-> TRUE,
                                        default |-> Str("replace")]]]]) :
                        s0 \in InitialSystems } : i.err = "none" } }
  /\ twin = Nil
  /\ nops = 0
  /\ last = NoLast
  /\ flight = <<>>

SpecService == InitService /\ [][NextTools]_vars


(***************************************************************************)
(* The cell coercion on its own, over cells spelled out character by       *)
(* character (csv-loader.ts convertTypes; googlesheet-loader.ts loadSheet   *)
(* holds the same three tests inline).                                     *)
(***************************************************************************)
\* longest cell built from CellChars
MaxCell == 4

CellChars == {"-", ".", "4", "2", "t", "T", "r", "u", "e"}

\* the cells read: every text of at most MaxCell characters, and the
\* spellings of false
Cells ==
  UNION { [1..n -> CellChars] : n \in 0..MaxCell }
    \cup { <<"f", "a", "l", "s", "e">>, <<"F", "A", "L", "S", "E">>,
           <<"F", "a", "l", "s", "e">>, <<"f", "a", "l", "s">> }

\* the coercion comparing the first letter as written: True stays a string
CoerceText_CaseSensitive(cs) ==
  LET Digit(c) == c \in {"4", "2"}
      Lower(c) == CASE c = "T" -> "t" [] c = "E" -> "e" [] c = "F" -> "f"
                    [] c = "A" -> "a" [] c = "L" -> "l" [] c = "S" -> "s"
                    [] OTHER -> c
      lower == [i \in 1..Len(cs) |-> IF i = 1 THEN cs[i] ELSE Lower(cs[i])]
      neg == Len(cs) > 0 /\ cs[1] = "-"
      body == IF neg THEN SubSeq(cs, 2, Len(cs)) ELSE cs
      dots == {i \in 1..Len(body) : body[i] = "."}
      dot == IF dots = {} THEN Len(body) + 1 ELSE CHOOSE i \in dots : TRUE
      matches == /\ Len(body) > 0
                 /\ Cardinality(dots) <= 1
                 /\ \A i \in 1..Len(body) : i # dot => Digit(body[i])
                 /\ dot > 1
                 /\ dots # {} => dot < Len(body)
      value[i \in 0..Len(body)] ==
        IF i = 0 THEN 0
        ELSE IF i >= dot THEN value[i - 1]
        ELSE value[i - 1] * 10 + (IF body[i] = "4" THEN 4 ELSE 2)
  IN  IF matches
        THEN [t |-> "number",
              n |-> IF neg THEN 0 - value[Len(body)] ELSE value[Len(body)],
              frac |-> SubSeq(body, dot + 1, Len(body))]
      ELSE IF lower = <<"t", "r", "u", "e">> THEN Bool(TRUE)
      ELSE IF lower = <<"f", "a", "l", "s", "e">> THEN Bool(FALSE)
      ELSE [t |-> "string", x |-> cs]

\* convertTypes for one value: the regular expression /^-?\d+(\.\d+)?$/ and
\* parseFloat, then toLowerCase() against 'true' and 'false', else the text
CoerceText(cs) ==
  LET Digit(c) == c \in {"4", "2"}
      Lower(c) == CASE c = "T" -> "t" [] c = "E" -> "e" [] c = "F" -> "f"
                    [] c = "A" -> "a" [] c = "L" -> "l" [] c = "S" -> "s"
                    [] OTHER -> c
      lower == [i \in 1..Len(cs) |-> Lower(cs[i])]
      neg == Len(cs) > 0 /\ cs[1] = "-"
      body == IF neg THEN SubSeq(cs, 2, Len(cs)) ELSE cs
      dots == {i \in 1..Len(body) : body[i] = "."}
      dot == IF dots = {} THEN Len(body) + 1 ELSE CHOOSE i \in dots : TRUE
      matches == /\ Len(body) > 0
                 /\ Cardinality(dots) <= 1
                 /\ \A i \in 1..Len(body) : i # dot => Digit(body[i])
                 /\ dot > 1
                 /\ dots # {} => dot < Len(body)
      value[i \in 0..Len(body)] ==
        IF i = 0 THEN 0
        ELSE IF i >= dot THEN value[i - 1]
        ELSE value[i - 1] * 10 + (IF body[i] = "4" THEN 4 ELSE 2)
  IN  IF matches
        THEN [t |-> "number",
              n |-> IF neg THEN 0 - value[Len(body)] ELSE value[Len(body)],
              frac |-> SubSeq(body, dot + 1, Len(body))]
      ELSE IF lower = <<"t", "r", "u", "e">> THEN Bool(TRUE)
      ELSE IF lower = <<"f", "a", "l", "s", "e">> THEN Bool(FALSE)
      ELSE [t |-> "string", x |-> cs]

\* one cell of a row is read
Coerce ==
  /\ last = NoLast
  /\ \E cs \in Cells :
       last' = [call |-> [op |-> "convertTypes", item |-> cs, id |-> ""],
                ret |-> CoerceText(cs), err |-> "none",
                queue |-> <<>>, tmpl |-> <<>>, has |-> FALSE, same |-> TRUE]
  /\ UNCHANGED <<sys, twin, nops, flight>>

\* one CSV deployment, nothing read yet
InitCoerce ==
  /\ Init
  /\ sys.store = EmptyStore
  /\ sys.config = [loader |-> "csv", inMemory |-> FALSE, itemTemplate |-> Nil]

SpecCoerce == InitCoerce /\ [][Coerce]_vars


(***************************************************************************)
(* The store is shared with its owner: a template file or a sheet can be   *)
(* added to it from outside while the server runs.                         *)
(***************************************************************************)
\* the file nope.json / nope.csv is written into the templates directory,
\* or the sheet nope is added to the spreadsheet, by someone else (in this
\* model: once, after initialization and before the first tool call)
Appears ==
  /\ Serving
  /\ last.call.op = "initialize"
  /\ sys.config.loader # "memory"
  /\ ~Exists(sys.store, "nope")
  /\ sys' = [sys EXCEPT !.store["nope"] = Encode(sys.config.loader, <<ItemA>>),
                        !.dirOrder = Append(@, "nope")]
  /\ UNCHANGED <<twin, last, nops, flight>>

\* deployments that start from a store holding nothing
InitShared == Init /\ sys.store = EmptyStore

NextShared == Next \/ Appears

SpecShared == InitShared /\ [][NextShared]_vars


(***************************************************************************)
(* The same operations at the grain of their awaits.  The CallTool handler *)
(* of server.ts is an async function that awaits tool.execute(args); each  *)
(* request the transport delivers starts its own run of the handler, and   *)
(* neither the handler nor the Queue Manager holds a lock.  flight lists   *)
(* the calls whose queue operation has started and has not returned, each  *)
(* with the await it is suspended on:                                      *)
(*   "read"    the loader's getItems() (read-all)                          *)
(*   "write"   the file loaders' writeFile (write-all)                     *)
(*   "clear"   writeSheet's values.clear                                   *)
(*   "update"  writeSheet's values.update                                  *)
(***************************************************************************)
GetOps == {"getFront", "getBack"}

PushOps == {"pushFront", "pushBack"}

\* the list the loader's addItem*/removeItem* writes back
Splice(op, item, items) ==
  CASE op = "pushFront" -> <<item>> \o items
    [] op = "pushBack" -> Append(items, item)
    [] op = "getFront" -> Rest(items)
    [] op = "getBack" -> Front(items)

\* the value removeItem* returns; addItem* returns nothing
Removed(op, items) ==
  CASE op = "getFront" -> Head(items)
    [] op = "getBack" -> items[Len(items)]
    [] OTHER -> Nil

\* the calls in flight without the i-th
Drop(i) ==
  [j \in 1..(Len(flight) - 1) |-> IF j < i THEN flight[j] ELSE flight[j + 1]]

\* the i-th call returns to the tool layer
Returns(i, ret, err) ==
  /\ flight' = Drop(i)
  /\ last' = [call |-> [op |-> flight[i].op, item |-> flight[i].item, id |-> ""],
              ret |-> ret, err |-> err, queue |-> flight[i].before,
              tmpl |-> <<>>, has |-> FALSE, same |-> FALSE]

\* a call is accepted and its operation runs up to its first await
Starts(op, item) ==
  /\ flight' = [j \in 1..Len(flight) |-> [flight[j] EXCEPT !.alone = FALSE]]
               \o <<[op |-> op, item |-> item, pc |-> "read", before |-> <<>>,
                     data |-> <<>>, alone |-> flight = <<>>]>>
  /\ UNCHANGED <<sys, last>>

\* the get tool: getFront()/getBack() in pass-through mode call the loader's
\* removeItemFront()/removeItemBack(), which awaits getItems()
StartGet ==
  /\ Serving
  /\ Len(flight) < MaxFlight
  /\ nops < MaxOps
  /\ \E op \in GetOps : Starts(op, Nil)
  /\ nops' = nops + 1
  /\ UNCHANGED twin

\* the push tool: pushFront()/pushBack() validate the item, then call the
\* loader's addItemFront()/addItemBack(), which awaits getItems()
StartPush ==
  /\ Serving
  /\ Len(flight) < MaxFlight
  /\ nops < MaxOps
  /\ \A name \in DOMAIN sys.store :
        ContentLen(sys.store[name]) + Len(flight) < MaxLen
  /\ \E op \in PushOps, item \in PushItems :
        IF validateItem(sys, item)
          THEN Starts(op, item)
          ELSE /\ last' = [call |-> [op |-> op, item |-> item, id |-> ""],
                           ret |-> Nil, err |-> "schemaMismatch",
                           queue |-> <<>>, tmpl |-> <<>>, has |-> FALSE,
                           same |-> TRUE]
               /\ UNCHANGED <<sys, flight>>
  /\ nops' = nops + 1
  /\ UNCHANGED twin

\* getItems() resolves: the operation splices its copy of the list and
\* starts saveItems(), or returns null when there is nothing to remove
ReadDone ==
  /\ \E i \in 1..Len(flight) :
       /\ flight[i].pc = "read"
       /\ \E g \in {Loader_getItems([sys EXCEPT !.reads = 0, !.caught = FALSE])} :
            /\ sys' = g.s
            /\ IF g.err # "none" THEN Returns(i, Nil, g.err)
               ELSE IF flight[i].op \in GetOps /\ g.ret = <<>>
                 THEN Returns(i, Nil, "none")
               ELSE /\ flight' = [flight EXCEPT ![i] =
                         [@ EXCEPT !.pc = IF IsFile(sys) THEN "write" ELSE "clear",
                                   !.before = g.ret,
                                   !.data = Splice(flight[i].op, flight[i].item,
                                                   g.ret)]]
                    /\ UNCHANGED last
  /\ UNCHANGED <<twin, nops>>

\* saveItems() of a file loader: one writeFile of the whole list
WriteDone ==
  /\ \E i \in 1..Len(flight) :
       /\ flight[i].pc = "write"
       /\ \E w \in {File_saveItems(sys, flight[i].data)} :
            /\ Bounded(w.s)
            /\ sys' = w.s
            /\ Returns(i, Removed(flight[i].op, flight[i].before), w.err)
  /\ UNCHANGED <<twin, nops>>

\* saveItems() of the spreadsheet loader up to writeSheet's values.clear:
\* the sheet is empty; with nothing to write, writeSheet returns here
ClearDone ==
  /\ \E i \in 1..Len(flight) :
       /\ flight[i].pc = "clear"
       /\ \E w \in {Sheet_saveItems(sys, <<>>)} :
            /\ sys' = w.s
            /\ IF flight[i].data = <<>>
                 THEN Returns(i, Removed(flight[i].op, flight[i].before), w.err)
                 ELSE /\ flight' = [flight EXCEPT ![i].pc = "update"]
                      /\ UNCHANGED last
  /\ UNCHANGED <<twin, nops>>

\* writeSheet's values.update resolves: the sheet holds the header and rows
UpdateDone ==
  /\ \E i \in 1..Len(flight) :
       /\ flight[i].pc = "update"
       /\ \E w \in {Sheet_saveItems(sys, flight[i].data)} :
            /\ Bounded(w.s)
            /\ sys' = w.s
            /\ Returns(i, Removed(flight[i].op, flight[i].before), w.err)
  /\ UNCHANGED <<twin, nops>>

\* writeSheet's values.update rejects (quota, network): writeSheet raises
\* "Failed to write sheet" and nothing restores the cleared range
UpdateFails ==
  /\ \E i \in 1..Len(flight) :
       /\ flight[i].pc = "update"
       /\ UNCHANGED sys
       /\ Returns(i, Nil, "saveFailed")
  /\ UNCHANGED <<twin, nops>>

\* deployments whose queue lives in the store: a file or spreadsheet
\* backend in pass-through mode
InitAsync ==
  /\ sys \in {s \in InitialSystems :
                ~s.config.inMemory /\ s.config.loader # "memory"}
  /\ twin = Nil
  /\ nops = 0
  /\ last = NoLast
  /\ flight = <<>>

\* main() initializes the Queue Manager once, before the server accepts calls
Startup == ~sys.initialized /\ Initialize

NextAsync ==
  \/ Startup
  \/ StartGet
  \/ StartPush
  \/ ReadDone
  \/ WriteDone
  \/ ClearDone
  \/ UpdateDone
  \/ UpdateFails

SpecAsync == InitAsync /\ [][NextAsync]_vars


(***************************************************************************)
(* validateItem on its own: a Queue Manager initialized under each of a    *)
(* set of item templates, asked to validate each of a set of values.       *)
(***************************************************************************)
\* item templates: one per kind name, an unknown kind name, two fields, a
\* field named like a member every object inherits
ValidateTemplates ==
  {Nil, [v |-> "string"], [v |-> "number"], [v |-> "boolean"],
   [v |-> "object"], [v |-> "array"], [v |-> "date"],
   [v |-> "number", w |-> "string"], [toString |-> "function"]}

\* the values handed to validateItem: objects with the fields v and/or w
\* holding a value of each kind, and two values that are not objects
ValidateItems ==
  UNION { [keys -> {Num(1), Str("1"), Bool(TRUE), JsNull, JsArray, JsObject}] :
          keys \in {{"v"}, {"w"}, {"v", "w"}} }
    \cup {Num(1), JsNull}

InitValidate ==
  /\ sys \in { initialize(NewSystem([loader |-> "memory", inMemory |-> TRUE,
                                      itemTemplate |-> template],
                                     EmptyStore, dirOrder, TRUE)).s :
               template \in ValidateTemplates, dirOrder \in DirOrders(EmptyStore) }
  /\ twin = Nil
  /\ nops = 0
  /\ last = NoLast
  /\ flight = <<>>

\* one call of queueManager.validateItem(item)
Validate ==
  /\ \E item \in ValidateItems :
       last' = [call |-> [op |-> "validateItem", item |-> item, id |-> ""],
                ret |-> Bool(validateItem(sys, item)), err |-> "none",
                queue |-> <<>>, tmpl |-> <<>>, has |-> FALSE, same |-> TRUE]
  /\ UNCHANGED <<sys, twin, nops, flight>>

SpecValidate == InitValidate /\ [][Validate]_vars


(***************************************************************************)
(* Properties                                                              *)
(***************************************************************************)
LastOp(op) == last.call.op = op
LastOk(op) == last.call.op = op /\ last.err = "none"

\* the kind of a field value, in the ItemTemplate's vocabulary
KindOf(v) ==
  CASE v = JsArray -> "array"
    [] v = JsObject -> "object"
    [] v = JsNull -> "null"
    [] OTHER -> v.t

\* every declared field is present with a value of the declared kind
Satisfies(item, template) ==
  /\ ~IsPrimitive(item)
  /\ \A key \in DOMAIN template :
       /\ key \in DOMAIN item
       /\ (template[key] \in {"string", "number", "boolean", "object", "array"}
             => \/ KindOf(item[key]) = template[key]
                \/ template[key] = "object" /\ KindOf(item[key]) = "array")

\* C1: after a successful addFrontFromTemplate(t) the queue is the template's
\* items followed by the previous queue, after addBackFromTemplate(t) the
\* previous queue followed by the template's items
C1_AddFromTemplateSplices ==
  /\ LastOk("addFrontFromTemplate") => QueueOf(sys) = last.tmpl \o last.queue
  /\ LastOk("addBackFromTemplate") => QueueOf(sys) = last.queue \o last.tmpl


\* C2: run from the same store with the same calls, the cached and the
\* pass-through system return the same value or error at every call and
\* hold the same queue after it
C2_ModesEquivalent ==
  (twin # Nil /\ sys.initialized /\ twin.s.initialized) =>
     /\ twin.err = last.err
     /\ twin.ret = last.ret
     /\ QueueOf(twin.s) = QueueOf(sys)

LastPush == LastOp("pushFront") \/ LastOp("pushBack")
LastGet == LastOp("getFront") \/ LastOp("getBack")

C4_InvalidPushRejected ==
  (LastPush /\ sys.itemTemplate # Nil
     /\ ~Satisfies(last.call.item, sys.itemTemplate)) =>
     /\ last.err = "schemaMismatch"
     /\ QueueOf(sys) = last.queue

C4_Witness ==
  /\ LastOp("pushFront")
  /\ last.err = "schemaMismatch"
  /\ Len(last.queue) > 0
  /\ QueueOf(sys) = last.queue

\* C5: after a successful replaceFromTemplate(id) the queue is exactly the
\* content the template had when it was loaded
C5_ReplaceYieldsTemplate ==
  LastOk("replaceFromTemplate") => QueueOf(sys) = last.tmpl

\* C6: right after a successful pushBack(x), getBack() returns x; right after
\* a successful pushFront(x), getFront() returns x
C6_PushThenGetReturnsItem ==
  /\ LastOk("pushBack") =>
       getBack(sys).err = "none" /\ getBack(sys).ret = last.call.item
  /\ LastOk("pushFront") =>
       getFront(sys).err = "none" /\ getFront(sys).ret = last.call.item

\* C7: front is index 0 and back the last index: pushBack puts the item
\* behind everything queued, pushFront before everything queued, and
\* getFront returns and removes the item at index 0
C7_FrontIsIndexZero ==
  /\ LastOk("pushBack") => QueueOf(sys) = last.queue \o <<last.call.item>>
  /\ LastOk("pushFront") => QueueOf(sys) = <<last.call.item>> \o last.queue
  /\ (LastOk("getFront") /\ last.queue # <<>>) =>
       last.ret = Head(last.queue) /\ QueueOf(sys) = Rest(last.queue)

\* C8: getFront/getBack on an empty queue return none, do not raise and
\* leave the queue empty
C8_GetOnEmptyReturnsNone ==
  (LastGet /\ last.queue = <<>>) =>
     /\ last.err = "none"
     /\ last.ret = Nil
     /\ QueueOf(sys) = <<>>

C8_Witness ==
  /\ LastOp("getBack")
  /\ last.queue = <<>>
  /\ sys.config.loader = "json"
  /\ ~sys.config.inMemory
  /\ sys.store = EmptyStore
  /\ last.ret = Nil

\* C9: in cached mode the queue is the fold of the successful operations
\* over the array getItems() returned at initialization
C9_CachedQueueIsFold ==
  (sys.config.inMemory /\ sys.initialized) => sys.items = sys.ref

C9_Witness ==
  /\ sys.config.inMemory
  /\ LastOk("addBackFromTemplate")
  /\ Len(last.tmpl) > 0
  /\ Len(last.queue) > 0
  /\ sys.items = last.queue \o last.tmpl

\* C10: in cached mode the content of the backing store never changes
C10_CachedNeverWritesStore ==
  sys.config.inMemory => sys.store = sys.store0

C10_Witness ==
  /\ sys.config.inMemory
  /\ sys.config.loader \in {"json", "csv", "googleSheet"}
  /\ LastOk("pushBack")
  /\ sys.store # EmptyStore
  /\ sys.items # sys.loader.cachedItems

\* C11 (as stated): in cached mode no operation served after initialize()
\* performs a read of the backing store
C11_CachedNeverReadsStore ==
  (sys.config.inMemory /\ sys.initialized
     /\ (LastGet \/ LastPush \/ last.call.op \in TemplateOps)) =>
     sys.reads = 0

\* C11 (amended): in cached mode getFront, getBack, pushFront and pushBack
\* perform no read of the backing store; the three template operations read
\* it only to check that the named template exists and to load it
C11_CachedQueueOpsNeverReadStore ==
  /\ (sys.config.inMemory /\ sys.initialized /\ (LastGet \/ LastPush)) =>
       sys.reads = 0
  /\ (sys.config.inMemory /\ sys.initialized /\ last.call.op \in TemplateOps) =>
       sys.reads <= 2

C11_Witness ==
  /\ sys.config.inMemory
  /\ sys.config.loader \in {"json", "csv", "googleSheet"}
  /\ sys.store # EmptyStore
  /\ LastOk("getBack")
  /\ last.queue # <<>>
  /\ last.ret = last.queue[Len(last.queue)]
  /\ sys.reads = 0

\* C12: in pass-through mode the Queue Manager's array and the loader's
\* cachedItems are empty in every state; a successful push adds one item to
\* the store's active content, and a get on a non-empty queue returns the
\* item the store held at that end and removes it from the store
C12_PassThroughKeepsNoCopy ==
  ~sys.config.inMemory =>
     /\ sys.items = <<>>
     /\ sys.loader.cachedItems = <<>>
     /\ (LastPush /\ last.err = "none") =>
          Len(QueueOf(sys)) = Len(last.queue) + 1
     /\ (LastOk("getFront") /\ last.queue # <<>>) =>
          /\ last.ret = Head(last.queue)
          /\ Len(QueueOf(sys)) = Len(last.queue) - 1
     /\ (LastOk("getBack") /\ last.queue # <<>>) =>
          /\ last.ret = last.queue[Len(last.queue)]
          /\ Len(QueueOf(sys)) = Len(last.queue) - 1

C12_Witness ==
  /\ ~sys.config.inMemory
  /\ sys.config.loader = "csv"
  /\ LastOk("getFront")
  /\ Len(last.queue) = 2
  /\ sys.store # sys.store0
  /\ Len(QueueOf(sys)) = 1

\* C13: a template operation naming a template for which hasTemplate is
\* false fails with a not-found error and leaves the cached array, the
\* content of the store and the choice of the active content as they were
C13_MissingTemplateNotFound ==
  (last.call.op \in TemplateOps /\ ~last.has) =>
     /\ last.err = "notFound"
     /\ last.same
     /\ QueueOf(sys) = last.queue

C13_Witness ==
  /\ LastOp("replaceFromTemplate")
  /\ ~last.has
  /\ last.err = "notFound"
  /\ ~sys.config.inMemory
  /\ Len(last.queue) = 2
  /\ sys.loader.active = "t"

\* C14: every error surfaces to the caller: no call returns a normal result
\* after an error was caught and dropped on its way
C14_NoErrorSwallowed ==
  last.err = "none" => ~sys.caught

\* C15: while a loader's addItem*/removeItem* is between its read-all and the
\* end of its write-all, and no other call is in flight beside it, the store
\* holds either the list the operation read or the list it writes back,
\* never a third content such as an emptied sheet.
C15_NoPartialWriteObservable ==
  (Len(flight) = 1 /\ flight[1].alone /\ flight[1].pc # "read") =>
     Len(QueueOf(sys)) \in {Len(flight[1].before), Len(flight[1].data)}

\* C16: at most one Queue Manager operation is in flight: no call's
\* operation starts while an earlier one is suspended on loader I/O.
C16_OneOperationInFlight == Len(flight) <= 1

\* C17: on a file or spreadsheet backend, the list getItems() returns after
\* saveItems(xs) is xs: same length, order, field values and value kinds.
\* In pass-through mode a push is getItems(), a splice and saveItems(xs), so
\* after every successful push the active content read back is the spliced
\* list.
C17_SaveThenGetRoundTrips ==
  (LastPush /\ last.err = "none" /\ sys.config.loader # "memory") =>
     QueueOf(sys) = Splice(last.call.op, last.call.item, last.queue)

\* C18: under an item template, validateItem returns true for every item
\* that has each declared field with a value of the declared kind (an
\* unknown kind name asks for presence only), and false for every item
\* that lacks a declared field.
C18_ValidateDecidesByTemplate ==
  (LastOp("validateItem") /\ sys.itemTemplate # Nil) =>
     /\ Satisfies(last.call.item, sys.itemTemplate) => last.ret = Bool(TRUE)
     /\ (\E key \in DOMAIN sys.itemTemplate : key \notin DOMAIN last.call.item)
           => last.ret = Bool(FALSE)

\* C19: without an item template validateItem accepts every value; under a
\* template, fields the template does not declare are not inspected: an
\* item whose declared fields satisfy the template is valid whatever other
\* fields it carries.
C19_UndeclaredFieldsIgnored ==
  LastOp("validateItem") =>
     /\ sys.itemTemplate = Nil => last.ret = Bool(TRUE)
     /\ (sys.itemTemplate # Nil /\ ~IsPrimitive(last.call.item)
           /\ DOMAIN sys.itemTemplate \subseteq DOMAIN last.call.item
           /\ Satisfies([key \in DOMAIN sys.itemTemplate |-> last.call.item[key]],
                        sys.itemTemplate))
          => last.ret = Bool(TRUE)

C19_Witness ==
  /\ LastOp("validateItem")
  /\ sys.itemTemplate = [v |-> "number"]
  /\ DOMAIN last.call.item = {"v", "w"}
  /\ last.call.item["w"] = JsNull
  /\ last.ret = Bool(TRUE)

\* C20: once the loader is initialized, getItemSchema() is the configured
\* item template when one is configured; without one it is a schema
\* inferred from a loaded template as soon as a template holding items has
\* been loaded successfully (at initialization or by a later template
\* operation), and none while the store has offered nothing to load.
C20_SchemaConfiguredElseInferred ==
  sys.initialized =>
     /\ sys.config.itemTemplate # Nil =>
          Loader_getItemSchema(sys) = sys.config.itemTemplate
     /\ (sys.config.itemTemplate = Nil /\ last.call.op \in TemplateOps
           /\ last.err = "none" /\ last.tmpl # <<>>)
          => Loader_getItemSchema(sys) # Nil
     /\ (sys.config.itemTemplate = Nil /\ sys.store0 = EmptyStore)
          => Loader_getItemSchema(sys) = Nil

\* C21: once the Queue Manager is initialized its item template never
\* changes: no push, get, template operation or repeated initialize alters
\* or re-infers it, whatever the shape of the items a template holds.
C21_ItemTemplateFixed ==
  [][sys.initialized => sys'.itemTemplate = sys.itemTemplate]_vars

C21_Witness ==
  /\ LastOk("addFrontFromTemplate")
  /\ sys.config.inMemory
  /\ last.tmpl = <<ItemE>>
  /\ sys.itemTemplate = [v |-> "number"]
  /\ sys.items[1] = ItemE

\* C22: initialize() is idempotent.  A call of the Queue Manager's
\* initialize() on an initialized manager returns normally and leaves the
\* manager, the loader and the store as they were, and in every state whose
\* loader is initialized the loader's initialize() does the same.
C22_InitializeIdempotent ==
  /\ [][(sys.initialized /\ last'.call.op = "initialize") =>
          /\ last'.err = "none"
          /\ [sys' EXCEPT !.reads = 0, !.caught = FALSE, !.ref = <<>>]
               = [sys EXCEPT !.reads = 0, !.caught = FALSE, !.ref = <<>>]]_vars
  /\ [](sys.loader.initialized =>
          \A r \in {Loader_initialize(sys)} : r.err = "none" /\ r.s = sys)

C22_Witness ==
  /\ LastOk("initialize")
  /\ sys.config.inMemory
  /\ sys.config.loader = "json"
  /\ sys.loader.cachedItems = <<ItemA, ItemB>>
  /\ sys.items = <<ItemA, ItemB, ItemA>>

C24_LoadTemplateNotFoundOrContent ==
  sys.loader.initialized =>
     \A id \in TemplateIds :
        \A h \in {Loader_hasTemplate(sys, id)}, l \in {Loader_loadTemplate(sys, id)} :
           /\ ~h.ret => l.err = "notFound"
           /\ (h.ret /\ sys.config.loader # "memory") =>
                l.err = "none" /\ Len(l.ret) = ContentLen(sys.store[id])

\* C25: for an initialized loader and every name, hasTemplate(name) is true
\* exactly when a file or sheet of that name exists in the store, whether the
\* loader created it or it appeared there after initialization.
C25_HasTemplateTracksStore ==
  sys.loader.initialized =>
     \A name \in StoreNames :
        Loader_hasTemplate(sys, name).ret <=> Exists(sys.store, name)

\* C26: a cell read from a CSV file or a sheet becomes a number when it is
\* an optional minus, digits and an optional fractional part ("42" becomes
\* 42), a boolean when it spells true or false in any letter case, and
\* stays the string it was otherwise.
C26_CellCoercion ==
  LastOp("convertTypes") =>
     LET cs == last.call.item
         digits(most) == UNION { [1..n -> {"4", "2"}] : n \in 1..most }
         numerals == { sign \o int \o frac :
                         sign \in {<<>>, <<"-">>}, int \in digits(MaxCell),
                         frac \in {<<>>} \cup
                                  { <<".">> \o f : f \in digits(MaxCell - 2) } }
         trues == [1..4 -> {"t", "T", "r", "R", "u", "U", "e", "E"}] \cap
                  { <<a, b, c, d>> : a \in {"t", "T"}, b \in {"r", "R"},
                                     c \in {"u", "U"}, d \in {"e", "E"} }
         falses == { <<"f", "a", "l", "s", "e">>, <<"F", "A", "L", "S", "E">>,
                     <<"F", "a", "l", "s", "e">> }
     IN  /\ cs \in numerals => last.ret.t = "number"
         /\ cs = <<"4", "2">> => last.ret.n = 42 /\ last.ret.frac = <<>>
         /\ cs = <<"-", "4">> => last.ret.n = 0 - 4
         /\ cs \in trues => last.ret = Bool(TRUE)
         /\ cs \in falses => last.ret = Bool(FALSE)
         /\ cs \notin numerals \cup trues \cup falses =>
              last.ret = [t |-> "string", x |-> cs]

C26_Witness ==
  /\ LastOp("convertTypes")
  /\ last.call.item = <<"T", "r", "u", "e">>
  /\ last.ret = Bool(TRUE)

\* C27: createLoader fails for a Memory configuration whose put is not
\* true and for a discriminator that is not memory, json, csv or
\* googleSheet, and no loader exists afterwards.
C27_ConfigErrorFatal ==
  LastOp("createLoader") =>
     (((sys.config.loader = "memory" /\ sys.config.put # Bool(TRUE))
        \/ sys.config.loader \notin {"memory", "json", "csv", "googleSheet"})
       => (last.err = "configError" /\ "loader" \notin DOMAIN sys))

C27_Witness ==
  /\ LastOp("createLoader")
  /\ sys.config.loader = "memory"
  /\ sys.config.put = Nil
  /\ last.err = "configError"
  /\ "loader" \notin DOMAIN sys

\* C28 as stated: a tool configured with visible = false is in no ListTools
\* result, and a CallTool request carrying its name or its alias gets the
\* unknown-tool error and leaves the queue as it was.
C28_HiddenToolUnknown ==
  \A kind \in {"get", "push", "load"} :
    sys.config.tools[kind].visible = FALSE =>
      /\ LastOp("ListTools") =>
           \A i \in 1..Len(last.ret) : last.ret[i].kind # kind
      /\ (/\ LastOp("CallTool")
          /\ \/ last.call.id = kind
             \/ Str(last.call.id) = sys.config.tools[kind].alias)
           => last.err = "unknownTool" /\ last.same

\* C28: a tool configured with visible = false is in no ListTools result and
\* no CallTool request runs it; a request carrying its name or its alias gets
\* the unknown-tool error and leaves the queue as it was, unless a visible
\* tool is registered under that name.
C28_HiddenToolNeverRuns ==
  \A kind \in {"get", "push", "load"} :
    sys.config.tools[kind].visible = FALSE =>
      /\ LastOp("ListTools") =>
           \A i \in 1..Len(last.ret) : last.ret[i].kind # kind
      /\ LastOp("CallTool") => last.ret.tool # kind
      /\ (/\ LastOp("CallTool")
          /\ \/ last.call.id = kind
             \/ Str(last.call.id) = sys.config.tools[kind].alias
          /\ \A other \in {"get", "push", "load"} :
               sys.config.tools[other].visible =>
                 last.call.id # (IF sys.config.tools[other].alias = Nil THEN other
                                 ELSE sys.config.tools[other].alias.x))
           => last.err = "unknownTool" /\ last.same /\ last.ret.op = "none"

C28_Witness ==
  /\ LastOp("CallTool")
  /\ sys.config.tools.get.visible = FALSE
  /\ sys.config.tools.get.alias = Str("readTodo")
  /\ sys.config.tools.push.visible
  /\ last.call.id = "readTodo"
  /\ last.call.item # Nil
  /\ last.err = "unknownTool"
  /\ last.queue = <<ItemA, ItemB>>
  /\ QueueOf(sys) = <<ItemA, ItemB>>

\* C29: for get, push and load, a parameter whose exposure flag is configured
\* false is taken from the configured default whatever the caller supplies
\* and is not required; a parameter whose flag is true is the caller's value,
\* the default applying only when the caller supplies none.
C29_ExposureFlagsHonoured ==
  (LastOp("CallTool") /\ last.ret.tool # "none") =>
    LET config == sys.config.tools[last.ret.tool]
        args == last.call.item
        given(param) == IF args = Nil THEN Nil ELSE args[param]
        chosen(exposed, param) ==
          IF exposed /\ given(param) # Nil THEN given(param).x ELSE config.default.x
    IN  /\ last.ret.tool = "get" =>
             last.ret.op = (IF chosen(config.directionExposed, "direction") = "front"
                              THEN "getFront" ELSE "getBack")
        /\ (last.ret.tool = "push" /\ given("item") # Nil) =>
             last.ret.op = (IF chosen(config.directionExposed, "direction") = "front"
                              THEN "pushFront" ELSE "pushBack")
        /\ last.ret.tool = "load" =>
             /\ ~config.templateIdExposed =>
                  last.err # "templateIdRequired" /\ last.ret.id = ""
             /\ (config.templateIdExposed /\ given("templateId") # Nil) =>
                  last.ret.id = given("templateId").x
             /\ (config.templateIdExposed => given("templateId") # Nil) =>
                  last.ret.op =
                    CASE chosen(config.actionExposed, "action") = "replace" ->
                           "replaceFromTemplate"
                      [] chosen(config.actionExposed, "action") = "front" ->
                           "addFrontFromTemplate"
                      [] OTHER -> "addBackFromTemplate"

\* C30: on the Memory backend replaceFromTemplate succeeds for every
\* templateId and leaves the queue empty, in cached and in pass-through mode.
C30_MemoryLoadResets ==
  (LastOp("replaceFromTemplate") /\ sys.config.loader = "memory") =>
     /\ last.err = "none"
     /\ QueueOf(sys) = <<>>
     /\ sys.loader.items = <<>>

C30_Witness ==
  /\ LastOk("replaceFromTemplate")
  /\ sys.config.loader = "memory"
  /\ ~sys.config.inMemory
  /\ last.call.id = "nope"
  /\ Len(last.queue) = 2
  /\ QueueOf(sys) = <<>>

\* C31: a get, push or load tool call in which the Queue Manager or the
\* loader raised an error is answered with isError = true and the error's
\* message, and a get on an empty queue with the non-error response
\* 'Queue is empty'.
C31_ErrorsBecomeErrorResponses ==
  (LastOp("CallTool") /\ last.ret.tool # "none") =>
     /\ last.ret.caught => last.ret.isError
     /\ last.ret.isError => last.ret.text = last.err
     /\ (last.ret.tool = "get" /\ last.err = "none" /\ last.queue = <<>>)
          => ~last.ret.isError /\ last.ret.text = "Queue is empty"

\* C32: a getFront / getBack that finds at least one item in the queue
\* returns the item at that end and not none, whatever the item's value, in
\* both modes.
C32_NoneOnlyWhenEmpty ==
  (last.call.op \in {"getFront", "getBack"} /\ last.err = "none"
     /\ last.queue # <<>>) =>
       /\ last.ret # Nil
       /\ last.ret = (IF last.call.op = "getFront" THEN last.queue[1]
                      ELSE last.queue[Len(last.queue)])

\* C33: while an ItemTemplate exists, every item in the queue, and every
\* item a getFront / getBack returns, satisfies it.
C33_QueueSatisfiesTemplate ==
  (sys.initialized /\ sys.itemTemplate # Nil) =>
     /\ QueueOf(sys) # Unreadable =>
          \A i \in 1..Len(QueueOf(sys)) :
             Satisfies(QueueOf(sys)[i], sys.itemTemplate)
     /\ (LastGet /\ last.err = "none" /\ last.ret # Nil) =>
          Satisfies(last.ret, sys.itemTemplate)

\* C34: a pushFront, pushBack, getFront or getBack leaves the content of
\* every named template as it was, in both modes.
C34_MutationsKeepTemplates ==
  [][(sys.initialized
        /\ last'.call.op \in {"pushFront", "pushBack", "getFront", "getBack"})
       => \A id \in TemplateIds :
            \A before \in {TemplateOf(sys, id)}, after \in {TemplateOf(sys', id)} :
               after = before]_vars

\* C35: a replaceFromTemplate / addFrontFromTemplate / addBackFromTemplate
\* that fails on loading a template that exists leaves the queue as it was:
\* the callers find in it what they found before the call.
C35_FailedLoadKeepsQueue ==
  (last.call.op \in TemplateOps /\ last.has /\ last.err = "loadFailed") =>
     QueueOf(sys) = last.queue

\* C36: in pass-through mode a successful pushFront / pushBack leaves the
\* store's active content equal to the previous content with the item
\* inserted at that end, so never with fewer items, and a failed push leaves
\* it as it was, also while the reads of the store fail.
C36_PushExtendsStore ==
  [][(sys.initialized /\ ~sys.config.inMemory
        /\ sys'.readFails = sys.readFails
        /\ last'.call.op \in {"pushFront", "pushBack"})
       => \A before \in {QueueOf([sys EXCEPT !.readFails = FALSE])},
             after \in {QueueOf([sys' EXCEPT !.readFails = FALSE])} :
            /\ last'.err # "none" => after = before
            /\ last'.err = "none" =>
                 /\ Len(after) >= Len(before)
                 /\ after = (IF last'.call.op = "pushFront"
                               THEN <<last'.call.item>> \o before
                               ELSE Append(before, last'.call.item))]_vars

\* C37: when pass-through operations overlap, no item is lost or returned
\* twice: of two pushes that return successfully one after the other both
\* items are in the store, and two gets at the same end that return one
\* after the other do not both return the item of the same stored list.
C37_OverlapLosesNothing ==
  [][(Len(flight') < Len(flight) /\ last.err = "none" /\ last'.err = "none") =>
       /\ (last.call.op \in PushOps /\ last'.call.op \in PushOps) =>
            Len(QueueOf(sys')) = Len(last.queue) + 2
       /\ (last.call.op \in GetOps /\ last'.call.op = last.call.op
             /\ last.ret # Nil /\ last'.ret # Nil) =>
            last'.queue # last.queue]_vars

\* C38: a schema inferred from an item accepts that item: validateItem of
\* an object against the schema inferSchema gives for it returns true, also
\* when fields hold null or arrays.
C38_InferredSchemaAcceptsItem ==
  (LastOp("validateItem") /\ ~IsPrimitive(last.call.item)
     /\ sys.itemTemplate = inferSchema(last.call.item)) =>
    last.ret = Bool(TRUE)

====
